---- MODULE Spec2Model ----
(***************************************************************************)
(* Model of the streaming indicators of ta-rs:                             *)
(*   SmoothedSimpleMovingAverage  (smoothed_simple_moving_average.rs)      *)
(*   RelativeStrengthIndex        (relative_strength_index.rs)             *)
(* Both compute over f64.  The arithmetic is modelled as IEEE-754 binary64 *)
(* with round-to-nearest-even: a finite value is sign * m * 2^e with the   *)
(* 53-bit significand m kept as a multi-limb natural number.               *)
(***************************************************************************)
EXTENDS Integers, Sequences, FiniteSets, TLC

(***************************************************************************)
(* Multi-limb naturals: little-endian sequences of limbs in base 2^15,     *)
(* without leading (high) zero limbs; <<>> is zero.                        *)
(***************************************************************************)
LimbBits == 15
Base == 32768

Max2(a, b) == IF a >= b THEN a ELSE b
Min2(a, b) == IF a <= b THEN a ELSE b

RECURSIVE Pow2(_)
Pow2(n) == IF n = 0 THEN 1 ELSE 2 * Pow2(n - 1)

RECURSIVE BigNorm(_)
BigNorm(a) ==
    IF a = <<>> THEN a
    ELSE IF a[Len(a)] = 0 THEN BigNorm(SubSeq(a, 1, Len(a) - 1))
    ELSE a

Limb(a, i) == IF i <= Len(a) THEN a[i] ELSE 0

BigFromNat(n) ==
    BigNorm(<<n % Base, (n \div Base) % Base, n \div (Base * Base)>>)

RECURSIVE BigAddC(_, _, _, _, _)
BigAddC(a, b, i, c, acc) ==
    IF i > Len(a) /\ i > Len(b)
    THEN (IF c = 0 THEN acc ELSE Append(acc, c))
    ELSE LET t == Limb(a, i) + Limb(b, i) + c
         IN  BigAddC(a, b, i + 1, t \div Base, Append(acc, t % Base))

BigAdd(a, b) == BigAddC(a, b, 1, 0, <<>>)

\* a - b for a >= b
RECURSIVE BigSubC(_, _, _, _, _)
BigSubC(a, b, i, c, acc) ==
    IF i > Len(a)
    THEN BigNorm(acc)
    ELSE LET t == Limb(a, i) - Limb(b, i) - c
         IN  IF t < 0
             THEN BigSubC(a, b, i + 1, 1, Append(acc, t + Base))
             ELSE BigSubC(a, b, i + 1, 0, Append(acc, t))

BigSub(a, b) == BigSubC(a, b, 1, 0, <<>>)

\* -1, 0, 1 as a < b, a = b, a > b
RECURSIVE BigCmpAt(_, _, _)
BigCmpAt(a, b, i) ==
    IF i = 0 THEN 0
    ELSE IF a[i] < b[i] THEN -1
    ELSE IF a[i] > b[i] THEN 1
    ELSE BigCmpAt(a, b, i - 1)

BigCmp(a, b) ==
    IF Len(a) < Len(b) THEN -1
    ELSE IF Len(a) > Len(b) THEN 1
    ELSE BigCmpAt(a, b, Len(a))

\* a * k for a limb-sized k
RECURSIVE BigMulSmallC(_, _, _, _, _)
BigMulSmallC(a, k, i, c, acc) ==
    IF i > Len(a)
    THEN (IF c = 0 THEN acc ELSE Append(acc, c))
    ELSE LET t == a[i] * k + c
         IN  BigMulSmallC(a, k, i + 1, t \div Base, Append(acc, t % Base))

BigMulSmall(a, k) == IF k = 0 THEN <<>> ELSE BigMulSmallC(a, k, 1, 0, <<>>)

Zeros(n) == [i \in 1..n |-> 0]

RECURSIVE BigMulAt(_, _, _, _)
BigMulAt(a, b, j, acc) ==
    IF j > Len(b) THEN acc
    ELSE BigMulAt(a, b, j + 1,
                  BigAdd(acc, IF b[j] = 0 THEN <<>>
                              ELSE Zeros(j - 1) \o BigMulSmall(a, b[j])))

BigMul(a, b) == IF a = <<>> \/ b = <<>> THEN <<>> ELSE BigMulAt(a, b, 1, <<>>)

\* a * 2^n
BigShl(a, n) ==
    IF a = <<>> THEN a
    ELSE Zeros(n \div LimbBits) \o BigMulSmall(a, Pow2(n % LimbBits))

\* floor(a / (Base^q * lo)) for lo * hi = Base
BigShrBy(a, q, lo, hi) ==
    IF q >= Len(a) THEN <<>>
    ELSE BigNorm([i \in 1..(Len(a) - q) |->
                    (a[i + q] \div lo) + (Limb(a, i + q + 1) % lo) * hi])

\* floor(a / 2^n)
BigShr(a, n) ==
    BigShrBy(a, n \div LimbBits, Pow2(n % LimbBits), Pow2(LimbBits - (n % LimbBits)))

\* a mod (Base^q * lo) # 0
BigLowSet(a, q, lo) ==
    \/ \E i \in 1..Len(a) : i <= q /\ a[i] # 0
    \/ (q < Len(a) /\ a[q + 1] % lo # 0)

\* a mod 2^n # 0
BigLowBitsSet(a, n) == BigLowSet(a, n \div LimbBits, Pow2(n % LimbBits))

\* bit n (0-based) of a
BigBit(a, n) == (Limb(a, (n \div LimbBits) + 1) \div Pow2(n % LimbBits)) % 2

RECURSIVE NatBitLen(_)
NatBitLen(n) == IF n = 0 THEN 0 ELSE 1 + NatBitLen(n \div 2)

BigBitLen(a) ==
    IF a = <<>> THEN 0 ELSE (Len(a) - 1) * LimbBits + NatBitLen(a[Len(a)])

\* The largest q <= qhat with q * d <= r (qhat overshoots by at most 2)
RECURSIVE BigDigitFix(_, _, _)
BigDigitFix(r, d, qhat) ==
    IF BigCmp(BigMulSmall(d, qhat), r) > 0 THEN BigDigitFix(r, d, qhat - 1)
    ELSE qhat

\* floor(r / d) for r < d * Base, d with its top limb >= Base / 2
BigDigit(r, d) ==
    BigDigitFix(r, d, Min2((Limb(r, Len(d) + 1) * Base + Limb(r, Len(d))) \div d[Len(d)],
                           Base - 1))

\* Long division of the limbs a[1..i] brought down onto remainder r
RECURSIVE BigDivAt(_, _, _, _, _)

\* the digit g found for remainder r1: subtract and go on to limb i - 1
BigDivSub(a, d, i, r1, q, g) ==
    IF g >= 0
    THEN BigDivAt(a, d, i - 1, BigSub(r1, BigMulSmall(d, g)), <<g>> \o q)
    ELSE <<q, r1>>

BigDivStep(a, d, i, r1, q) == BigDivSub(a, d, i, r1, q, BigDigit(r1, d))

BigDivAt(a, d, i, r, q) ==
    IF i = 0 THEN <<BigNorm(q), r>>
    ELSE BigDivStep(a, d, i, BigNorm(<<a[i]>> \o r), q)

\* <<floor(a / d), remainder # 0>> for d with its top limb >= Base / 2
BigDivNorm(a, d) == BigDivAt(a, d, Len(a), <<>>, <<>>)

BigDivShift(a, d, sh) == BigDivNorm(BigShl(a, sh), BigShl(d, sh))

BigDivFlag(qr) == <<qr[1], qr[2] # <<>> >>

\* <<floor(a / d), remainder # 0>> for d # 0
BigDivMod(a, d) ==
    BigDivFlag(BigDivShift(a, d, (LimbBits - (BigBitLen(d) % LimbBits)) % LimbBits))

(***************************************************************************)
(* f64: IEEE-754 binary64.  A value is a record                            *)
(*   [k |-> "fin" | "inf" | "nan", s |-> 0 | 1, m |-> limbs, e |-> Int]    *)
(* A finite value is (-1)^s * m * 2^e, kept canonical: m has MantBits bits *)
(* for a normal number (EMin <= e <= EMax), fewer only at e = EMin         *)
(* (subnormal); zero is m = <<>>, e = 0.                                   *)
(***************************************************************************)
MantBits == 53
EMin == -1074
EMax == 971

FZero(s) == [k |-> "fin", s |-> s, m |-> <<>>, e |-> 0]
FInf(s) == [k |-> "inf", s |-> s, m |-> <<>>, e |-> 0]
FNaN == [k |-> "nan", s |-> 0, m |-> <<>>, e |-> 0]

IsNaN(x) == x.k = "nan"
IsInf(x) == x.k = "inf"
IsFinite(x) == x.k = "fin"
IsZero(x) == x.k = "fin" /\ x.m = <<>>

\* The f64 nearest to (-1)^s * M * 2^E, ties to even; overflow gives infinity.
FPack(s, m, e) ==
    IF m = <<>> THEN FZero(s)
    ELSE IF e > EMax THEN FInf(s)
    ELSE [k |-> "fin", s |-> s, m |-> m, e |-> e]

\* q1 is the rounded significand, one bit too long when carry
FCarried(s, q1, e, carry) ==
    FPack(s, IF carry THEN BigShr(q1, 1) ELSE q1, IF carry THEN e + 1 ELSE e)

FCarry(s, q1, e) == FCarried(s, q1, e, BigBitLen(q1) > MantBits)

\* q is the significand cut short; of the bits cut off, half is the first
\* and sticky says whether any later one is set
FRoundUp(s, q, e, half, sticky) ==
    FCarry(s, IF half /\ (sticky \/ BigBit(q, 0) = 1) THEN BigAdd(q, <<1>>) ELSE q, e)

\* M of L bits loses its low shift bits (gains -shift zero bits when shift <= 0)
FRoundBy(s, M, E, L, shift) ==
    IF shift <= 0
    THEN FPack(s, BigShl(M, Min2(MantBits - L, E - EMin)),
               E - Min2(MantBits - L, E - EMin))
    ELSE FRoundUp(s, BigShr(M, shift), E + shift,
                  BigBit(M, shift - 1) = 1, BigLowBitsSet(M, shift - 1))

FRoundLen(s, M, E, L) ==
    IF L = 0 THEN FZero(s)
    ELSE FRoundBy(s, M, E, L, Max2(L - MantBits, EMin - E))

FRoundPack(s, M, E) == FRoundLen(s, M, E, BigBitLen(M))

\* 2^(MantBits - L) * M for M of L bits, 0 < L <= MantBits: nothing to round
FExact(M, L) ==
    [k |-> "fin", s |-> 0, m |-> BigShl(M, MantBits - L), e |-> L - MantBits]

\* usize as f64, exact below 2^MantBits as every count and period here is
FFromNat(n) == IF n = 0 THEN FZero(0) ELSE FExact(BigFromNat(n), NatBitLen(n))

FNeg(x) == IF IsNaN(x) THEN x ELSE [x EXCEPT !.s = 1 - x.s]

\* -1, 0, 1 comparing |x| with |y|, for x, y not NaN
MagCmp(x, y) ==
    IF IsInf(x) THEN (IF IsInf(y) THEN 0 ELSE 1)
    ELSE IF IsInf(y) THEN -1
    ELSE IF x.m = <<>> THEN (IF y.m = <<>> THEN 0 ELSE -1)
    ELSE IF y.m = <<>> THEN 1
    ELSE IF x.e < y.e THEN -1
    ELSE IF x.e > y.e THEN 1
    ELSE BigCmp(x.m, y.m)

\* -1, 0, 1 comparing x with y, for x, y not NaN (-0 = +0)
FCmp(x, y) ==
    IF IsZero(x) /\ IsZero(y) THEN 0
    ELSE IF x.s # y.s THEN (IF x.s = 1 THEN -1 ELSE 1)
    ELSE IF x.s = 0 THEN MagCmp(x, y) ELSE MagCmp(y, x)

FEq(x, y) == ~IsNaN(x) /\ ~IsNaN(y) /\ FCmp(x, y) = 0
FLt(x, y) == ~IsNaN(x) /\ ~IsNaN(y) /\ FCmp(x, y) < 0
FLe(x, y) == ~IsNaN(x) /\ ~IsNaN(y) /\ FCmp(x, y) <= 0
FGt(x, y) == FLt(y, x)
FGe(x, y) == FLe(y, x)

\* Exponent gap beyond which the smaller addend only decides the rounding
StickyGap == 60

\* x + y for finite non-zero x, y with x.e >= y.e
\* (-1)^sx * A * 2^E + (-1)^sy * B * 2^E, c comparing A with B
FAddSigned(sx, sy, A, B, E, c) ==
    IF sx # sy /\ c = 0 THEN FZero(0)
    ELSE FRoundPack(IF sx = sy \/ c > 0 THEN sx ELSE sy,
                    IF sx = sy THEN BigAdd(A, B)
                    ELSE IF c > 0 THEN BigSub(A, B)
                    ELSE BigSub(B, A),
                    E)

FAddMag(sx, sy, A, B, E) == FAddSigned(sx, sy, A, B, E, BigCmp(A, B))

\* far: y is too small to reach the bits of x kept, and stands as a sticky bit
FAddGap(x, y, far) ==
    FAddMag(x.s, y.s,
            BigShl(x.m, IF far THEN 4 ELSE x.e - y.e),
            IF far THEN <<1>> ELSE y.m,
            IF far THEN x.e - 4 ELSE y.e)

FAddFin(x, y) == FAddGap(x, y, x.e - y.e >= StickyGap)

FAdd(x, y) ==
    IF IsNaN(x) \/ IsNaN(y) THEN FNaN
    ELSE IF IsInf(x) THEN (IF IsInf(y) /\ x.s # y.s THEN FNaN ELSE x)
    ELSE IF IsInf(y) THEN y
    ELSE IF IsZero(x) /\ IsZero(y) THEN FZero(IF x.s = 1 /\ y.s = 1 THEN 1 ELSE 0)
    ELSE IF IsZero(x) THEN y
    ELSE IF IsZero(y) THEN x
    ELSE FAddFin(IF x.e >= y.e THEN x ELSE y, IF x.e >= y.e THEN y ELSE x)

FSub(x, y) == FAdd(x, FNeg(y))

\* f64::abs
FAbs(x) == IF IsNaN(x) THEN x ELSE [x EXCEPT !.s = 0]

\* the sign of a product or quotient
SignOf(x, y) == IF x.s = y.s THEN 0 ELSE 1

FMulSigned(x, y, s) ==
    IF IsNaN(x) \/ IsNaN(y) THEN FNaN
    ELSE IF IsInf(x) \/ IsInf(y)
    THEN (IF IsZero(x) \/ IsZero(y) THEN FNaN ELSE FInf(s))
    ELSE IF IsZero(x) \/ IsZero(y) THEN FZero(s)
    ELSE FRoundPack(s, BigMul(x.m, y.m), x.e + y.e)

FMul(x, y) == FMulSigned(x, y, SignOf(x, y))

\* Quotient bits computed before rounding: MantBits plus guard bits
DivBits == 57

\* qr is <<quotient, remainder # 0>>: the remainder stands as a sticky bit
FDivPack(s, qr, e) ==
    FRoundPack(s, BigAdd(BigMulSmall(qr[1], 2), IF qr[2] THEN <<1>> ELSE <<>>), e)

\* the quotient of x.m * 2^k by y.m has DivBits or DivBits + 1 bits
FDivBy(x, y, s, k) ==
    FDivPack(s, BigDivMod(BigShl(x.m, k), y.m), x.e - y.e - k - 1)

\* x / y of sign s for finite non-zero x, y
FDivFin(x, y, s) == FDivBy(x, y, s, DivBits + BigBitLen(y.m) - BigBitLen(x.m))

FDivSigned(x, y, s) ==
    IF IsNaN(x) \/ IsNaN(y) THEN FNaN
    ELSE IF IsInf(x) THEN (IF IsInf(y) THEN FNaN ELSE FInf(s))
    ELSE IF IsInf(y) THEN FZero(s)
    ELSE IF IsZero(y) THEN (IF IsZero(x) THEN FNaN ELSE FInf(s))
    ELSE IF IsZero(x) THEN FZero(s)
    ELSE FDivFin(x, y, s)

FDiv(x, y) == FDivSigned(x, y, SignOf(x, y))

\* f64::round: to the nearest integer, halves away from zero
FRound(x) ==
    IF ~IsFinite(x) \/ IsZero(x) \/ x.e >= 0 THEN x
    ELSE IF -x.e > MantBits + 1 THEN FZero(x.s)
    ELSE FRoundPack(x.s, BigShr(BigAdd(x.m, BigShl(<<1>>, -x.e - 1)), -x.e), 0)

\* The f64 written as the decimal literal n/d (n an integer, d a power of ten)
FLit(n, d) ==
    FDivSigned(FFromNat(IF n < 0 THEN -n ELSE n), FFromNat(d), IF n < 0 THEN 1 ELSE 0)

(***************************************************************************)
(* Values used by the code and by the driver                               *)
(***************************************************************************)
\* The f64 literals of the code, as the compiler stores them
F0 == FZero(0)
\* 50.0 = 0x4049000000000000
F50 == [k |-> "fin", s |-> 0, m |-> <<0, 0, 0, 200>>, e |-> -47]
\* 100.0 = 0x4059000000000000
F100 == [k |-> "fin", s |-> 0, m |-> <<0, 0, 0, 200>>, e |-> -46]
\* 1e-9 = 0x3E112E0BE826D695
Epsilon == [k |-> "fin", s |-> 0, m |-> <<22165, 20557, 14383, 137>>, e |-> -82]

\* Each stored literal is the f64 nearest to the decimal written in the code
LiteralsRounded ==
    /\ F50 = FFromNat(50)
    /\ F100 = FFromNat(100)
    /\ Epsilon = FLit(1, 1000000000)

None == <<>>
Some(x) == <<x>>

Ok(v) == [tag |-> "Ok", val |-> v, err |-> "none"]
Err(e) == [tag |-> "Err", val |-> None, err |-> e]

(***************************************************************************)
(* SimpleMovingAverage: the sub-indicator RelativeStrengthIndex owns.      *)
(* Its contract: Step returns the arithmetic mean of the last              *)
(* min(count, period) inputs, count being the number of Steps since        *)
(* construction/reset; Reset returns it to the zeroed state.               *)
(***************************************************************************)
SmaNew(period) ==
    IF period = 0 THEN Err("InvalidParameter")
    ELSE Ok([period |-> period, count |-> 0, window |-> <<>>])

LastN(w, n) == IF Len(w) <= n THEN w ELSE SubSeq(w, Len(w) - n + 1, Len(w))

RECURSIVE FSumFrom(_, _, _)
FSumFrom(w, i, acc) ==
    IF i > Len(w) THEN acc ELSE FSumFrom(w, i + 1, FAdd(acc, w[i]))

\* x1 + x2 + ... + xn, added left to right
FSum(w) == IF w = <<>> THEN F0 ELSE FSumFrom(w, 2, w[1])

FMean(w) == FDiv(FSum(w), FFromNat(Len(w)))

\* <<state after, value returned>>
SmaNext(sma, input) ==
    LET w == LastN(Append(sma.window, input), sma.period)
    IN  <<[sma EXCEPT !.count = sma.count + 1, !.window = w], FMean(w)>>

SmaReset(sma) == [sma EXCEPT !.count = 0, !.window = <<>>]

(***************************************************************************)
(* SmoothedSimpleMovingAverage                                             *)
(***************************************************************************)
\* Mutant: the period is not validated
SsmaNewUnchecked(period) ==
    Ok([period |-> period, current_val |-> F0, count |-> 0, sum |-> F0])

SsmaNew(period) ==
    IF period = 0 THEN Err("InvalidParameter")
    ELSE Ok([period |-> period, current_val |-> F0, count |-> 0, sum |-> F0])

SsmaDefaultPeriod == 9

SsmaDefault == SsmaNew(SsmaDefaultPeriod).val

SsmaPeriod(self) == self.period

\* Mutant: the warm-up divides by the period instead of the count
SsmaValueOverPeriod(self, count, sum, input) ==
    IF count <= self.period
    THEN FDiv(sum, FFromNat(self.period))
    ELSE FDiv(FAdd(FMul(self.current_val, FFromNat(self.period - 1)), input),
              FFromNat(self.period))

\* Mutant: the recurrence weighs the previous value by period, not period - 1
SsmaValueFullWeight(self, count, sum, input) ==
    IF count <= self.period
    THEN FDiv(sum, FFromNat(count))
    ELSE FDiv(FAdd(FMul(self.current_val, FFromNat(self.period)), input),
              FFromNat(self.period))

\* Mutant: the running mean is never left for the recurrence
SsmaValueMeanOnly(self, count, sum, input) == FDiv(sum, FFromNat(count))

\* current_val as assigned by next, from the count and sum already updated
SsmaValue(self, count, sum, input) ==
    IF count <= self.period
    THEN FDiv(sum, FFromNat(count))
    ELSE FDiv(FAdd(FMul(self.current_val, FFromNat(self.period - 1)), input),
              FFromNat(self.period))

SsmaStore(self, count, sum, val) ==
    <<[self EXCEPT !.count = count, !.sum = sum, !.current_val = val], val>>

SsmaStep(self, count, sum, input) ==
    SsmaStore(self, count, sum, SsmaValue(self, count, sum, input))

\* Mutant: sum = input where the code has sum += input
SsmaNextOverwritesSum(self, input) ==
    SsmaStep(self, self.count + 1, input, input)

\* <<state after, value returned>>
SsmaNext(self, input) ==
    SsmaStep(self, self.count + 1, FAdd(self.sum, input), input)

\* next over a record exposing close()
SsmaNextClose(self, bar) == SsmaNext(self, bar.close)

\* Mutant: reset replaces the instance by a default one
SsmaResetToDefault(self) == SsmaDefault

\* Mutant: reset leaves the running sum
SsmaResetKeepsSum(self) == [self EXCEPT !.current_val = F0, !.count = 0]

SsmaReset(self) ==
    [self EXCEPT !.current_val = F0, !.count = 0, !.sum = F0]

(***************************************************************************)
(* RelativeStrengthIndex                                                   *)
(***************************************************************************)
RsiBuild(period, up, down) ==
    IF up.tag = "Err" THEN Err(up.err)
    ELSE IF down.tag = "Err" THEN Err(down.err)
    ELSE Ok([period |-> period,
             up_ma_indicator |-> up.val,
             down_ma_indicator |-> down.val,
             prev_val |-> F0,
             is_new |-> TRUE])

RsiNew(period) == RsiBuild(period, SmaNew(period), SmaNew(period))

RsiDefaultPeriod == 14

RsiDefault == RsiNew(RsiDefaultPeriod).val

RsiPeriod(self) == self.period

\* Mutant: the down move is taken as input - prev_val
RsiMovesSwapped(self, input) ==
    IF self.is_new THEN <<F0, F0>>
    ELSE IF FGt(input, self.prev_val)
    THEN <<FSub(input, self.prev_val), F0>>
    ELSE <<F0, FSub(input, self.prev_val)>>

\* Mutant: the first sample is compared with prev_val like any other
RsiMovesUnseeded(self, input) ==
    IF FGt(input, self.prev_val)
    THEN <<FSub(input, self.prev_val), F0>>
    ELSE <<F0, FSub(self.prev_val, input)>>

\* The moves fed to <<up_ma_indicator, down_ma_indicator>>
RsiMoves(self, input) ==
    IF self.is_new THEN <<F0, F0>>
    ELSE IF FGt(input, self.prev_val)
    THEN <<FSub(input, self.prev_val), F0>>
    ELSE <<F0, FSub(self.prev_val, input)>>

\* Mutant: the guard looks at up_ma alone
RsiOutputGuardsUp(up_ma, down_ma) ==
    IF FLt(up_ma, Epsilon) THEN F50
    ELSE FDiv(FMul(F100, up_ma), FAdd(up_ma, down_ma))

\* Mutant: only an exactly zero denominator is masked to 50
RsiOutputZeroGuard(up_ma, down_ma) ==
    IF IsZero(FAdd(up_ma, down_ma)) THEN F50
    ELSE FDiv(FMul(F100, up_ma), FAdd(up_ma, down_ma))

\* The value returned for the two averages
RsiOutput(up_ma, down_ma) ==
    IF FLt(FAdd(up_ma, down_ma), Epsilon) THEN F50
    ELSE FDiv(FMul(F100, up_ma), FAdd(up_ma, down_ma))

\* Mutant: is_new is never cleared
RsiFeedStaysNew(self, input, up, down) ==
    <<[self EXCEPT !.prev_val = input,
                   !.up_ma_indicator = up[1],
                   !.down_ma_indicator = down[1]],
      RsiOutput(up[2], down[2])>>

RsiFeed(self, input, up, down) ==
    <<[self EXCEPT !.is_new = FALSE,
                   !.prev_val = input,
                   !.up_ma_indicator = up[1],
                   !.down_ma_indicator = down[1]],
      RsiOutput(up[2], down[2])>>

RsiStep(self, input, moves) ==
    RsiFeed(self, input,
            SmaNext(self.up_ma_indicator, moves[1]),
            SmaNext(self.down_ma_indicator, moves[2]))

\* <<state after, value returned>>
RsiNext(self, input) == RsiStep(self, input, RsiMoves(self, input))

RsiNextClose(self, bar) == RsiNext(self, bar.close)

\* Mutant: reset leaves is_new
RsiResetKeepsNew(self) ==
    [self EXCEPT !.prev_val = F0,
                 !.up_ma_indicator = SmaReset(self.up_ma_indicator),
                 !.down_ma_indicator = SmaReset(self.down_ma_indicator)]

\* Mutant: reset forgets down_ma_indicator
RsiResetSkipsDown(self) ==
    [self EXCEPT !.is_new = TRUE,
                 !.prev_val = F0,
                 !.up_ma_indicator = SmaReset(self.up_ma_indicator)]

RsiReset(self) ==
    [self EXCEPT !.is_new = TRUE,
                 !.prev_val = F0,
                 !.up_ma_indicator = SmaReset(self.up_ma_indicator),
                 !.down_ma_indicator = SmaReset(self.down_ma_indicator)]

(***************************************************************************)
(* The driver: a caller that constructs one indicator, then steps and      *)
(* resets it.  Samples come from a small alphabet, or continue one of the  *)
(* sequences of the repository's tests and doc examples.                   *)
(***************************************************************************)
MaxPeriod == 4
MaxSteps == 4
MaxResets == 1

\* The f64 literals n.0 for the integers ns
Whole(ns) == [i \in DOMAIN ns |-> FFromNat(ns[i])]

\* 0.1 = 0x3FB999999999999A
Lit0p1 == [k |-> "fin", s |-> 0, m |-> <<6554, 13107, 26214, 204>>, e |-> -56]
\* 0.3 = 0x3FD3333333333333
Lit0p3 == [k |-> "fin", s |-> 0, m |-> <<13107, 26214, 19660, 153>>, e |-> -54]
\* 9.5 = 0x4023000000000000
Lit9p5 == [k |-> "fin", s |-> 0, m |-> <<0, 0, 0, 152>>, e |-> -49]
\* 10.5 = 0x4025000000000000
Lit10p5 == [k |-> "fin", s |-> 0, m |-> <<0, 0, 0, 168>>, e |-> -49]

\* Each stored sample is the f64 nearest to the decimal written
SamplesRounded ==
    /\ Lit0p1 = FLit(1, 10)
    /\ Lit0p3 = FLit(3, 10)
    /\ Lit9p5 = FLit(95, 10)
    /\ Lit10p5 = FLit(105, 10)

SsmaInputs == {Lit0p1, FFromNat(4), FFromNat(6)}
RsiInputs == {Lit0p1, Lit0p3, FFromNat(10)}

\* tests::test_next of SSMA: period 3
ScenarioC == Whole(<<10, 11, 12, 13, 14, 15>>)
\* tests::test_next_with_bars of SSMA: period 4, fed as bars
ScenarioD == Whole(<<4, 5, 6, 6, 6, 2>>)
\* tests::test_period_1 of SSMA
ScenarioE == Whole(<<100, 200, 300>>)
\* tests::test_next of RSI and its doc example: period 3
ScenarioA == <<FFromNat(10), Lit10p5, FFromNat(10), Lit9p5>>

\* n * 2^e for n >= 1, exactly
Dyadic(n, e) == [FFromNat(n) EXCEPT !.e = @ + e]
\* samples a few 2^-40 apart: a move down, no move, a move up, each far below
\* the 1e-9 of next
ScenarioTiny == <<Dyadic(3, -40), Dyadic(2, -40), Dyadic(2, -40), Dyadic(3, -40)>>

SsmaScenarios == {ScenarioC, ScenarioD, ScenarioE}
RsiScenarios == {ScenarioA, ScenarioTiny}

IsPrefix(h, t) == Len(h) <= Len(t) /\ SubSeq(t, 1, Len(h)) = h

\* The samples the driver may feed after the samples h, n steps in all so far
Feed(inputs, scenarios, h, n) ==
    (IF n < MaxSteps /\ (\A i \in 1..Len(h) : h[i] \in inputs) THEN inputs ELSE {})
    \cup {t[Len(h) + 1] : t \in {u \in scenarios : Len(u) > Len(h) /\ IsPrefix(h, u)}}

\* A record exposing close(), as test_helper's Bar does
Bar(close) == [close |-> close]

VARIABLES
    ssma,    \* Option<SmoothedSimpleMovingAverage>
    rsi,     \* Option<RelativeStrengthIndex>
    res,     \* what the constructor returned: "none" before it ran, "Ok", or the error
    asked,   \* the period the constructor was given (0 before it ran)
    hist,    \* the samples stepped since construction or the last reset
    rets,    \* the values returned for them
    twin,    \* after a reset: a freshly constructed instance fed the same samples
    trets,   \* the values the twin returned
    steps,   \* steps since construction
    resets,  \* resets since construction
    last     \* the last operation: "init", "new", "next", "reset"

vars == <<ssma, rsi, res, asked, hist, rets, twin, trets, steps, resets, last>>

Init ==
    /\ ssma = None
    /\ rsi = None
    /\ res = "none"
    /\ asked = 0
    /\ hist = <<>>
    /\ rets = <<>>
    /\ twin = None
    /\ trets = <<>>
    /\ steps = 0
    /\ resets = 0
    /\ last = "init"

Built(r, period) ==
    /\ res' = IF r.tag = "Ok" THEN "Ok" ELSE r.err
    /\ asked' = period
    /\ last' = "new"
    /\ UNCHANGED <<hist, rets, twin, trets, steps, resets>>

\* SmoothedSimpleMovingAverage::new(period)
SsmaCreate(period) ==
    /\ res = "none"
    /\ ssma' = (IF SsmaNew(period).tag = "Ok" THEN Some(SsmaNew(period).val) ELSE None)
    /\ rsi' = rsi
    /\ Built(SsmaNew(period), period)

\* SmoothedSimpleMovingAverage::default()
SsmaCreateDefault ==
    /\ res = "none"
    /\ ssma' = Some(SsmaDefault)
    /\ rsi' = rsi
    /\ Built(Ok(SsmaDefault), SsmaDefaultPeriod)

\* Bookkeeping of a step: r and t are <<state after, value returned>>
Stepped(input, r, t) ==
    /\ hist' = Append(hist, input)
    /\ rets' = Append(rets, r[2])
    /\ twin' = (IF twin = None THEN None ELSE Some(t[1]))
    /\ trets' = (IF twin = None THEN trets ELSE Append(trets, t[2]))
    /\ steps' = steps + 1
    /\ last' = "next"
    /\ UNCHANGED <<res, asked, resets>>

SsmaApply(input, r, t) ==
    /\ ssma' = Some(r[1])
    /\ rsi' = rsi
    /\ Stepped(input, r, t)

\* next(input: f64)
SsmaStepF64(input) ==
    /\ ssma # None
    /\ SsmaApply(input, SsmaNext(ssma[1], input),
                 IF twin = None THEN <<>> ELSE SsmaNext(twin[1], input))

\* next(input: &T) for T: Close
SsmaStepClose(bar) ==
    /\ ssma # None
    /\ SsmaApply(bar.close, SsmaNextClose(ssma[1], bar),
                 IF twin = None THEN <<>> ELSE SsmaNextClose(twin[1], bar))

Cleared(fresh) ==
    /\ hist' = <<>>
    /\ rets' = <<>>
    /\ twin' = Some(fresh)
    /\ trets' = <<>>
    /\ resets' = resets + 1
    /\ last' = "reset"
    /\ UNCHANGED <<res, asked, steps>>

\* reset()
SsmaDoReset ==
    /\ ssma # None
    /\ resets < MaxResets
    /\ ssma' = Some(SsmaReset(ssma[1]))
    /\ rsi' = rsi
    /\ Cleared(SsmaNew(SsmaPeriod(ssma[1])).val)

\* RelativeStrengthIndex::new(period)
RsiCreate(period) ==
    /\ res = "none"
    /\ rsi' = (IF RsiNew(period).tag = "Ok" THEN Some(RsiNew(period).val) ELSE None)
    /\ ssma' = ssma
    /\ Built(RsiNew(period), period)

\* RelativeStrengthIndex::default()
RsiCreateDefault ==
    /\ res = "none"
    /\ rsi' = Some(RsiDefault)
    /\ ssma' = ssma
    /\ Built(Ok(RsiDefault), RsiDefaultPeriod)

RsiApply(input, r, t) ==
    /\ rsi' = Some(r[1])
    /\ ssma' = ssma
    /\ Stepped(input, r, t)

\* next(input: f64)
RsiStepF64(input) ==
    /\ rsi # None
    /\ RsiApply(input, RsiNext(rsi[1], input),
                IF twin = None THEN <<>> ELSE RsiNext(twin[1], input))

\* next(input: &T) for T: Close
RsiStepClose(bar) ==
    /\ rsi # None
    /\ RsiApply(bar.close, RsiNextClose(rsi[1], bar),
                IF twin = None THEN <<>> ELSE RsiNextClose(twin[1], bar))

\* reset()
RsiDoReset ==
    /\ rsi # None
    /\ resets < MaxResets
    /\ rsi' = Some(RsiReset(rsi[1]))
    /\ ssma' = ssma
    /\ Cleared(RsiNew(RsiPeriod(rsi[1])).val)

NextSSMA ==
    \/ \E period \in 0..MaxPeriod : SsmaCreate(period)
    \/ SsmaCreateDefault
    \/ \E input \in Feed(SsmaInputs, SsmaScenarios, hist, steps) : SsmaStepF64(input)
    \/ \E input \in Feed(SsmaInputs, SsmaScenarios, hist, steps) : SsmaStepClose(Bar(input))
    \/ SsmaDoReset

NextRSI ==
    \/ \E period \in 0..MaxPeriod : RsiCreate(period)
    \/ RsiCreateDefault
    \/ \E input \in Feed(RsiInputs, RsiScenarios, hist, steps) : RsiStepF64(input)
    \/ \E input \in Feed(RsiInputs, RsiScenarios, hist, steps) : RsiStepClose(Bar(input))
    \/ RsiDoReset

Next == NextSSMA \/ NextRSI

SpecSSMA == Init /\ [][NextSSMA]_vars
SpecRSI == Init /\ [][NextRSI]_vars
Spec == Init /\ [][Next]_vars

(***************************************************************************)
(* Properties                                                              *)
(***************************************************************************)
T == Len(hist)
LastRet == rets[Len(rets)]

\* |a - b| < 1e-9, the tolerance of the repository's tests
Near(a, b) == FLt(FAbs(FSub(a, b)), Epsilon)

\* C1: a fresh RSI(3) stepped with 10.0, 10.5, 10.0, 9.5 returns exactly 50.0,
\* then values that round to 86, 35 and 16.
ExpectedA == <<50, 86, 35, 16>>
C1_ScenarioA ==
    (rsi # None /\ asked = 3 /\ resets = 0 /\ hist # <<>> /\ IsPrefix(hist, ScenarioA))
    => /\ (T = 1 => LastRet = F50)
       /\ FRound(LastRet) = FFromNat(ExpectedA[T])

\* C2: a fresh SSMA(4) stepped with bars closing at 4, 5, 6, 6, 6, 2 returns
\* exactly 4.0, 4.5, 5.0, 5.25, 5.75, 4.8125.
ExpectedD == <<FFromNat(4), FLit(45, 10), FFromNat(5),
               FLit(525, 100), FLit(575, 100), FLit(48125, 10000)>>
C2_ScenarioD ==
    (ssma # None /\ asked = 4 /\ resets = 0 /\ hist # <<>> /\ IsPrefix(hist, ScenarioD))
    => LastRet = ExpectedD[T]

\* C3: every value an RSI step returns lies in the closed interval [0, 100].
C3_Range ==
    (rsi # None /\ rets # <<>>) => (FLe(F0, LastRet) /\ FLe(LastRet, F100))

\* C4: after Reset an SSMA has count = 0, sum = 0, current_val = 0 and its period
\* unchanged, and from then on it returns exactly what a freshly constructed SSMA
\* of the same period returns on the same samples (the first step returns its
\* input).
C4_SsmaResetFresh ==
    (ssma # None /\ resets > 0)
    => /\ ssma[1].period = asked
       /\ (last = "reset" =>
              /\ ssma[1].count = 0
              /\ ssma[1].sum = F0
              /\ ssma[1].current_val = F0)
       /\ ssma = twin
       /\ rets = trets
       /\ (T = 1 => rets[1] = hist[1])

C4_Witness ==
    /\ ssma # None
    /\ resets = 1
    /\ steps - T > asked
    /\ T > asked

\* C5: Reset of an RSI sets is_new, zeroes prev_val and resets both inner SMAs, and
\* from then on the RSI returns exactly what a freshly constructed RSI of the same
\* period returns on the same samples.
C5_RsiResetFresh ==
    (rsi # None /\ resets > 0)
    => /\ (last = "reset" =>
              /\ rsi[1].is_new
              /\ rsi[1].prev_val = F0
              /\ rsi[1].up_ma_indicator = SmaNew(asked).val
              /\ rsi[1].down_ma_indicator = SmaNew(asked).val)
       /\ rsi = twin
       /\ rets = trets

C5_Witness ==
    /\ rsi # None
    /\ resets = 1
    /\ steps - T > asked
    /\ T > asked
    /\ \E i \in 1..T : rets[i] # F50

\* C6: while the step index t since construction/reset is at most the period, the
\* value returned and the stored current_val both equal sum / count, the
\* arithmetic mean (x1 + ... + xt) / t of the samples seen.
C6_WarmupMean ==
    (ssma # None /\ T >= 1 /\ T <= ssma[1].period)
    => /\ ssma[1].count = T
       /\ LastRet = ssma[1].current_val
       /\ ssma[1].current_val = FDiv(ssma[1].sum, FFromNat(ssma[1].count))
       /\ ssma[1].current_val = FMean(hist)

C6_Witness ==
    /\ ssma # None
    /\ T >= 3
    /\ T = ssma[1].period
    /\ hist[1] # hist[2]

\* C7: past the warm-up (t > N) the value returned is
\* (previous value returned * (N - 1) + x_t) / N, the first such step starting
\* from the warm-up mean of the first N samples; SSMA(3) on 10, 11, ..., 15 yields
\* 10, 10.5, 11 and then 35/3, 112/9, 359/27 (to the tests' tolerance).
ExpectedC == <<FFromNat(10), FLit(105, 10), FFromNat(11),
               FDiv(FFromNat(35), FFromNat(3)),
               FDiv(FFromNat(112), FFromNat(9)),
               FDiv(FFromNat(359), FFromNat(27))>>
C7_Recurrence ==
    /\ (ssma # None /\ T > ssma[1].period)
       => /\ LastRet = FDiv(FAdd(FMul(rets[T - 1], FFromNat(ssma[1].period - 1)),
                                 hist[T]),
                            FFromNat(ssma[1].period))
          /\ (T = ssma[1].period + 1
                 => rets[T - 1] = FMean(SubSeq(hist, 1, ssma[1].period)))
    /\ (ssma # None /\ asked = 3 /\ T >= 1 /\ IsPrefix(hist, ScenarioC))
       => /\ Near(LastRet, ExpectedC[T])
          /\ (T <= 3 => LastRet = ExpectedC[T])

C7_Witness ==
    /\ ssma # None
    /\ asked = 3
    /\ hist = ScenarioC

\* C8: an SSMA of period 1 returns exactly its input at every step.
C8_PeriodOne ==
    (ssma # None /\ ssma[1].period = 1 /\ T >= 1) => LastRet = hist[T]

C8_Witness ==
    /\ ssma # None
    /\ ssma[1].period = 1
    /\ hist = ScenarioE

\* C9: construction with period 0 returns InvalidParameter and yields no instance;
\* with a period >= 1 it succeeds with the fresh state (SSMA: count = 0, sum = 0,
\* current_val = 0; RSI: is_new, prev_val = 0, two fresh inner SMAs of the period).
C9_Construction ==
    (last = "new")
    => /\ (asked = 0 => (res = "InvalidParameter" /\ ssma = None /\ rsi = None))
       /\ (asked >= 1 =>
              /\ res = "Ok"
              /\ (ssma = None) # (rsi = None)
              /\ (ssma # None =>
                     ssma[1] = [period |-> asked, current_val |-> F0,
                                count |-> 0, sum |-> F0])
              /\ (rsi # None =>
                     rsi[1] = [period |-> asked,
                               up_ma_indicator |->
                                   [period |-> asked, count |-> 0, window |-> <<>>],
                               down_ma_indicator |->
                                   [period |-> asked, count |-> 0, window |-> <<>>],
                               prev_val |-> F0,
                               is_new |-> TRUE]))

C9_Witness ==
    /\ last = "new"
    /\ asked = 0
    /\ res = "InvalidParameter"

\* C10: on a non-decreasing input sequence, at every step after the first the down
\* average D is 0 and the up average U is >= 0, and the value returned is exactly
\* 100 when U > 0 and exactly 50 when U = 0.
NonDecreasing(h) == \A i \in 1..(Len(h) - 1) : FLe(h[i], h[i + 1])
UpAvg == FMean(rsi[1].up_ma_indicator.window)
DownAvg == FMean(rsi[1].down_ma_indicator.window)
C10_NonDecreasing ==
    (rsi # None /\ T >= 2 /\ NonDecreasing(hist))
    => /\ IsZero(DownAvg)
       /\ FGe(UpAvg, F0)
       /\ (FGt(UpAvg, F0) => LastRet = F100)
       /\ (IsZero(UpAvg) => LastRet = F50)

\* C11 as claimed: on a non-increasing input sequence the up average U is 0 at
\* every step, and the value returned is exactly 0 whenever the down average D is
\* > 0 and exactly 50 when D = 0.
NonIncreasing(h) == \A i \in 1..(Len(h) - 1) : FGe(h[i], h[i + 1])
C11_NonIncreasing ==
    (rsi # None /\ T >= 1 /\ NonIncreasing(hist))
    => /\ IsZero(UpAvg)
       /\ (FGt(DownAvg, F0) => IsZero(LastRet))
       /\ (IsZero(DownAvg) => LastRet = F50)

\* C11 as amended: on a non-increasing input sequence U is 0 at every step, and
\* the value returned is exactly 0 whenever D >= 1e-9 and exactly 50 whenever
\* D < 1e-9 (D = 0 included).
C11_NonIncreasingEps ==
    (rsi # None /\ T >= 1 /\ NonIncreasing(hist))
    => /\ IsZero(UpAvg)
       /\ (FGe(DownAvg, Epsilon) => IsZero(LastRet))
       /\ (FLt(DownAvg, Epsilon) => LastRet = F50)

C11_Witness ==
    /\ rsi # None
    /\ T >= 2
    /\ NonIncreasing(hist)
    /\ FGt(DownAvg, F0)
    /\ FLt(DownAvg, Epsilon)
    /\ LastRet = F50

\* C12: the first step after construction or after Reset returns exactly 50
\* whatever the input x, leaves is_new false and prev_val = x, and has fed 0 to
\* both inner SMAs.
C12_FirstStep ==
    (rsi # None /\ T = 1)
    => /\ LastRet = F50
       /\ ~rsi[1].is_new
       /\ rsi[1].prev_val = hist[1]
       /\ rsi[1].up_ma_indicator.window = <<F0>>
       /\ rsi[1].down_ma_indicator.window = <<F0>>
       /\ rsi[1].up_ma_indicator.count = 1
       /\ rsi[1].down_ma_indicator.count = 1

C12_Witness ==
    /\ rsi # None
    /\ T = 1
    /\ resets = 1
    /\ steps >= 3
    /\ ~IsZero(hist[1])

\* The steady-state recurrence evaluated at t = N, from the value returned at
\* t = N - 1 (the initial current_val when N = 1) and the N-th sample
SeamRecurrence ==
    FDiv(FAdd(FMul(IF T = 1 THEN F0 ELSE rets[T - 1], FFromNat(T - 1)), hist[T]),
         FFromNat(T))

RECURSIVE MaxAbsFrom(_, _, _)
MaxAbsFrom(h, i, acc) ==
    IF i > Len(h) THEN acc
    ELSE MaxAbsFrom(h, i + 1, IF FGt(FAbs(h[i]), acc) THEN FAbs(h[i]) ELSE acc)

\* the largest |x| among the samples h
MaxAbs(h) == MaxAbsFrom(h, 1, F0)

\* C13 as claimed: at t = N the warm-up value (the mean of the first N samples,
\* which the code returns) and the recurrence evaluated at t = N give the same
\* value only when N = 1.
C13_SeamOnlyPeriodOne ==
    (ssma # None /\ T >= 1 /\ T = ssma[1].period /\ LastRet = SeamRecurrence)
    => ssma[1].period = 1

\* C13 as amended: at t = N the two formulas agree for every N: the values are
\* identical for N = 1 and N = 2, and for N >= 3 they differ by rounding only,
\* by at most 2^-50 times the largest |x_i|.
C13_SeamAgrees ==
    (ssma # None /\ T >= 1 /\ T = ssma[1].period)
    => /\ (T <= 2 => LastRet = SeamRecurrence)
       /\ FLe(FAbs(FSub(LastRet, SeamRecurrence)),
              FMul(Dyadic(1, -50), MaxAbs(hist)))

C13_Witness ==
    /\ ssma # None
    /\ T >= 3
    /\ T = ssma[1].period
    /\ hist[1] # hist[T]
    /\ LastRet = SeamRecurrence

\* The states of the RSI's state machine, read off an instance
Fresh(r) == r.is_new
Warming(r) ==
    /\ ~r.is_new
    /\ r.up_ma_indicator.count < r.period
    /\ r.down_ma_indicator.count < r.period
Steady(r) ==
    /\ ~r.is_new
    /\ r.up_ma_indicator.count >= r.period
    /\ r.down_ma_indicator.count >= r.period

\* a Step of the RSI is being taken
RsiStepTaken == rsi # None /\ steps' = steps + 1

\* WARMING lasts until both inner counts reach the period, then STEADY; a Step
\* in STEADY stays in STEADY, only Reset leaves it, and Reset leads to FRESH
LifecycleAfterFresh ==
    /\ (RsiStepTaken /\ Warming(rsi[1]))
       => /\ (Warming(rsi'[1]) \/ Steady(rsi'[1]))
          /\ (Steady(rsi'[1]) <=>
                 /\ rsi'[1].up_ma_indicator.count = rsi[1].period
                 /\ rsi'[1].down_ma_indicator.count = rsi[1].period)
    /\ (RsiStepTaken /\ Steady(rsi[1])) => Steady(rsi'[1])
    /\ (rsi # None /\ Steady(rsi[1]) /\ ~Steady(rsi'[1])) => last' = "reset"
    /\ (rsi # None /\ last' = "reset") => Fresh(rsi'[1])

\* C14 as claimed: for every period >= 1 a Step taken in FRESH leads to WARMING
\* (inner SMA counts < period); Steps keep the RSI in WARMING until both inner
\* counts reach the period, when it is STEADY; every Step in STEADY leaves it
\* STEADY, and only Reset leaves STEADY.
C14_Lifecycle ==
    [][/\ (RsiStepTaken /\ Fresh(rsi[1])) => Warming(rsi'[1])
       /\ LifecycleAfterFresh]_vars

\* C14 as amended: a Step taken in FRESH leads to WARMING for every period >= 2
\* and directly to STEADY for period 1 (the inner counts are then 1 = period);
\* the rest as claimed.
C14_LifecycleFromTwo ==
    [][/\ (RsiStepTaken /\ Fresh(rsi[1]))
          => IF rsi[1].period >= 2 THEN Warming(rsi'[1]) ELSE Steady(rsi'[1])
       /\ LifecycleAfterFresh]_vars

C14_Witness ==
    /\ rsi # None
    /\ rsi[1].period >= 2
    /\ resets = 1
    /\ ~rsi[1].is_new
    /\ rsi[1].up_ma_indicator.count > rsi[1].period
    /\ rsi[1].down_ma_indicator.count > rsi[1].period

\* C15: in every reachable state of an RSI both inner SMAs have the period of the
\* RSI, each has been fed as many samples since construction/reset as the RSI
\* has consumed, and is_new holds exactly when both inner counts are 0.
C15_InnerInvariants ==
    (rsi # None)
    => /\ rsi[1].up_ma_indicator.period = rsi[1].period
       /\ rsi[1].down_ma_indicator.period = rsi[1].period
       /\ rsi[1].up_ma_indicator.count = T
       /\ rsi[1].down_ma_indicator.count = T
       /\ (rsi[1].is_new <=> (/\ rsi[1].up_ma_indicator.count = 0
                               /\ rsi[1].down_ma_indicator.count = 0))

C15_Witness ==
    /\ rsi # None
    /\ resets = 1
    /\ T >= 2
    /\ steps > T
    /\ rsi[1].up_ma_indicator.count = T

\* C16: Period() of an SSMA and of an RSI is the period the constructor was given
\* (14 for a default-constructed RSI), whatever Steps and Resets were made since.
C16_PeriodFrame ==
    /\ (ssma # None /\ asked \in 1..MaxPeriod) => SsmaPeriod(ssma[1]) = asked
    /\ (rsi # None /\ asked \in 1..MaxPeriod) => RsiPeriod(rsi[1]) = asked
    /\ (rsi # None /\ asked \notin 1..MaxPeriod) => RsiPeriod(rsi[1]) = 14

C16_Witness ==
    /\ rsi # None
    /\ asked \notin 1..MaxPeriod
    /\ resets = 1
    /\ steps >= 2
    /\ T >= 1
    /\ RsiPeriod(rsi[1]) = 14

\* The value an inner SMA was fed last
LastFed(sma) == sma.window[Len(sma.window)]

\* The pair <<u, d>> fed on a Step with input x while prev_val was p
FedAsSplit(x, p, u, d) ==
    /\ (FGt(x, p) => (u = FSub(x, p) /\ d = F0))
    /\ (~FGt(x, p) => (u = F0 /\ d = FSub(p, x)))
    /\ FGe(u, F0)
    /\ FGe(d, F0)
    /\ (IsZero(u) \/ IsZero(d))
    /\ (FEq(x, p) => (IsZero(u) /\ IsZero(d)))

\* C17: on every Step after the first, with input x and stored prev_val p, the
\* pair fed to (up_ma, down_ma) is (x - p, 0) if x > p and (0, p - x) otherwise:
\* both values are non-negative, at most one is non-zero and x = p feeds 0 to
\* both; each SMA is fed exactly once, and afterwards prev_val = x.
C17_FedPairs ==
    [][(RsiStepTaken /\ ~rsi[1].is_new)
       => /\ FedAsSplit(hist'[Len(hist')], rsi[1].prev_val,
                        LastFed(rsi'[1].up_ma_indicator),
                        LastFed(rsi'[1].down_ma_indicator))
          /\ rsi'[1].up_ma_indicator.count = rsi[1].up_ma_indicator.count + 1
          /\ rsi'[1].down_ma_indicator.count = rsi[1].down_ma_indicator.count + 1
          /\ rsi'[1].prev_val = hist'[Len(hist')]]_vars

C17_Witness ==
    /\ rsi # None
    /\ T >= 3
    /\ FGt(hist[T - 1], hist[T - 2])
    /\ FLt(hist[T], hist[T - 1])
    /\ LastFed(rsi[1].down_ma_indicator) = FSub(hist[T - 1], hist[T])
    /\ LastFed(rsi[1].up_ma_indicator) = F0
    /\ rsi[1].prev_val = hist[T]

\* every value in the window w is zero
AllZero(w) == \A i \in 1..Len(w) : IsZero(w[i])

\* C18: with U and D the means of the last min(t, period) values fed to up_ma
\* and down_ma, the value returned is exactly 50 when U + D < 1e-9 and
\* 100 * U / (U + D) otherwise; so it is exactly 50 once the last `period` fed
\* moves are all zero.
C18_EpsilonRule ==
    (rsi # None /\ T >= 1)
    => /\ Len(rsi[1].up_ma_indicator.window) = Min2(T, rsi[1].period)
       /\ Len(rsi[1].down_ma_indicator.window) = Min2(T, rsi[1].period)
       /\ (FLt(FAdd(UpAvg, DownAvg), Epsilon) => LastRet = F50)
       /\ (~FLt(FAdd(UpAvg, DownAvg), Epsilon)
              => LastRet = FDiv(FMul(F100, UpAvg), FAdd(UpAvg, DownAvg)))
       /\ ((/\ AllZero(rsi[1].up_ma_indicator.window)
            /\ AllZero(rsi[1].down_ma_indicator.window)) => LastRet = F50)

C18_Witness ==
    /\ rsi # None
    /\ T >= 3
    /\ T > rsi[1].period
    /\ rets[T - 1] # F50
    /\ AllZero(rsi[1].up_ma_indicator.window)
    /\ AllZero(rsi[1].down_ma_indicator.window)
    /\ LastRet = F50

\* C19: every value an SSMA returns lies between the minimum and the maximum of
\* the inputs consumed since construction/reset.
C19_Between ==
    (ssma # None /\ T >= 1)
    => /\ \E i \in 1..T : FLe(hist[i], LastRet)
       /\ \E j \in 1..T : FLe(LastRet, hist[j])

\* C20: an RSI of period 1 returns exactly 100 when the input is greater than the
\* previous input, exactly 0 when it is smaller, and exactly 50 when it is equal
\* or is the first sample since construction/reset.
C20_PeriodOne ==
    (rsi # None /\ rsi[1].period = 1 /\ T >= 1)
    => /\ (T = 1 => LastRet = F50)
       /\ (T >= 2 => /\ (FGt(hist[T], hist[T - 1]) => LastRet = F100)
                     /\ (FLt(hist[T], hist[T - 1]) => IsZero(LastRet))
                     /\ (FEq(hist[T], hist[T - 1]) => LastRet = F50))

====
